---- MODULE Spec2Model ----
(***************************************************************************)
(* Model of the image-to-video client: the generateVideo workflow of      *)
(* services/geminiService.ts (payload, submission, 10 s poll loop, result *)
(* extraction, authenticated download) and the state of the App component *)
(* of App.tsx that drives it (credential gate, image drop, handleGenerate, *)
(* generated-video list).                                                 *)
(*                                                                         *)
(* Optional values (TypeScript `x?: T`, undefined) are sequences of       *)
(* length 0 or 1: None is <<>>, Some(v) is <<v>>.  Strings are TLA+        *)
(* strings; String.prototype.includes is computed on them.                *)
(***************************************************************************)
EXTENDS Integers, Sequences, FiniteSets, TLC

VARIABLES
    image,            \* App state `image` as of the last render: None or
                      \* Some([data, mimeType, preview])
    prompt,           \* App state `prompt`
    isGenerating,     \* App state `isGenerating`: the last value set
    error,            \* App state `error`: None (null) or Some(message)
    generatedVideos,  \* App state `generatedVideos`, newest first
    hasApiKey,        \* App state `hasApiKey`: the last value set
    aspectRatio,      \* App state `aspectRatio`
    checkKeyPending,  \* the mount effect's checkApiKey() has not resolved yet
    selectors,        \* handleGenerate invocations awaiting openApiKeySelector()
    reads,            \* FileReader loads started by onDrop and not yet finished
    pending,          \* generateVideo invocations in flight: [closure, call]
    now,              \* wall clock, in ms
    urlCount,         \* object URLs created for downloaded videos so far
    started,          \* generateVideo invocations made by handleGenerate so far
    drops,            \* files dropped so far
    liveUrls,         \* object URLs created and not revoked
    mounted,          \* the App component is mounted
    queuedImage,      \* the last setImage value React has not rendered yet
    keyLost,          \* history: the catch block's setHasApiKey(false) has run and
                      \* handleGenerate has not been invoked since
    keyRegained,      \* history: while keyLost, setHasApiKey(true) has been called
    renderedHasApiKey,    \* `hasApiKey` as of the last render: the value the
                          \* handleGenerate bound to the button has closed over
    renderedIsGenerating  \* `isGenerating` as of the last render: the value the
                          \* button's `disabled` attribute was computed from

vars == <<image, prompt, isGenerating, error, generatedVideos, hasApiKey,
          aspectRatio, checkKeyPending, selectors, reads, pending, now,
          urlCount, started, drops, liveUrls, mounted, queuedImage,
          keyLost, keyRegained, renderedHasApiKey, renderedIsGenerating>>

uiVars == <<image, prompt, isGenerating, error, generatedVideos, hasApiKey,
            aspectRatio, checkKeyPending, selectors, reads, started, drops,
            mounted, queuedImage, keyLost, keyRegained, renderedHasApiKey,
            renderedIsGenerating>>

-----------------------------------------------------------------------------
(* Bounds of the model *)

\* poll intervals during which the provider may report "not done" to a
\* generateVideo invocation made on its own
MaxPolls == 2
\* poll intervals of a behaviour during which the provider may report "not
\* done" to the invocations made by handleGenerate
MaxWaits == 1
\* generateVideo invocations started through the UI in one behaviour
MaxGenerations == 2
\* files dropped on the drop zone in one behaviour
MaxDrops == 1
\* handleGenerate invocations waiting in openApiKeySelector() at one time
MaxSelectors == 1

-----------------------------------------------------------------------------
(* Values *)

None == <<>>
Some(v) == <<v>>

\* setTimeout(resolve, 10000)
PollIntervalMs == 10000

DefaultResolution == "720p"
DefaultAspectRatio == "16:9"
ModelName == "veo-3.1-fast-generate-preview"
NumberOfVideos == 1

NoLinkMessage == "Video generation failed: No download link returned."
DownloadFailedPrefix == "Failed to download video: "
FallbackMessage == "Something went wrong during video generation."
RemediationMessage == "API Key permission error. Please ensure you have selected a paid Google Cloud project key with Veo access."
DefaultPrompt == "Animate this image with cinematic motion."
DefaultTitle == "Cinematic Animation"

\* s.includes(sub)
Includes(s, sub) ==
    \E i \in 1..(Len(s) - Len(sub) + 1) : SubSeq(s, i, i + Len(sub) - 1) = sub

\* JavaScript truthiness of an optional string: undefined and "" are falsy
Truthy(m) == m # None /\ m[1] # ""

\* m || d for an optional string m
OrElse(m, d) == IF Truthy(m) THEN m[1] ELSE d

-----------------------------------------------------------------------------
(* What callers and the provider can supply *)

AspectRatios == {"16:9", "9:16"}
Resolutions == {"720p", "1080p"}
UserPrompts == {"", "make it fly"}
Files == {[data |-> "QUJD", mimeType |-> "image/png"]}

\* VideoGenerationOptions, as its type allows
OptionSet ==
    [prompt : {None} \cup {Some(p) : p \in UserPrompts},
     image : {None} \cup {Some(f) : f \in Files},
     aspectRatio : {None} \cup {Some(a) : a \in AspectRatios},
     resolution : {None} \cup {Some(r) : r \in Resolutions}]

\* messages of errors thrown by the provider client ("" : an Error without message)
ProviderErrors ==
    {"permission denied", "Requested entity was not found.", "HTTP 403",
     "quota exceeded", ""}

\* errors thrown by fetch() and by response.blob()
NetworkErrors == {"Failed to fetch"}

StatusTexts == {"Forbidden", ""}

ResultUri == "https://x/y"

Video(uri) == [video |-> Some([uri |-> uri])]

\* the response payloads a finished operation can carry
Responses ==
    { None,
      Some([generatedVideos |-> None]),
      Some([generatedVideos |-> Some(<<>>)]),
      Some([generatedVideos |-> Some(<<[video |-> None]>>)]),
      Some([generatedVideos |-> Some(<<Video(None)>>)]),
      Some([generatedVideos |-> Some(<<Video(Some(""))>>)]),
      Some([generatedVideos |-> Some(<<Video(Some(ResultUri))>>)]) }

PendingOperation == [done |-> FALSE, response |-> None]
DoneOperations == {[done |-> TRUE, response |-> r] : r \in Responses}

FetchResponses ==
    {[ok |-> TRUE, statusText |-> "OK"]}
        \cup {[ok |-> FALSE, statusText |-> s] : s \in StatusTexts}

-----------------------------------------------------------------------------
(* generateVideo (services/geminiService.ts), as pure steps on the record  *)
(* of one invocation:                                                      *)
(*   pc        the suspension point the invocation is at, or how it ended  *)
(*   options   its argument                                                *)
(*   payload   the payload handed to ai.models.generateVideos              *)
(*   operation the operation most recently observed (None before the first)*)
(*   log       the calls it made and what it observed, in order            *)
(*   download  the Response of the download fetch (None before it)         *)
(*   result    Some(url) once returned, Some(message) once thrown          *)
(*   startedAt the clock when it was invoked                               *)
(***************************************************************************)

\* PayloadConfig with the caller's resolution dropped
PayloadConfigFixedResolution(options) ==
    [numberOfVideos |-> NumberOfVideos,
     resolution |-> DefaultResolution,
     aspectRatio |-> OrElse(options.aspectRatio, DefaultAspectRatio)]

\* payload.config
PayloadConfig(options) ==
    [numberOfVideos |-> NumberOfVideos,
     resolution |-> OrElse(options.resolution, DefaultResolution),
     aspectRatio |-> OrElse(options.aspectRatio, DefaultAspectRatio)]

\* payload.prompt: set only when options.prompt is truthy
PayloadPrompt(options) ==
    IF Truthy(options.prompt) THEN Some(options.prompt[1]) ELSE None

\* payload.image: set only when options.image is given
PayloadImage(options) ==
    IF options.image # None
    THEN Some([imageBytes |-> options.image[1].data,
               mimeType |-> options.image[1].mimeType])
    ELSE None

BuildPayload(options) ==
    [model |-> ModelName,
     config |-> PayloadConfig(options),
     prompt |-> PayloadPrompt(options),
     image |-> PayloadImage(options)]

\* operation.response?.generatedVideos?.[0]?.video?.uri
DownloadLink(operation) ==
    LET r == operation.response IN
    IF r = None THEN None ELSE
    LET g == r[1].generatedVideos IN
    IF g = None THEN None ELSE
    IF Len(g[1]) = 0 THEN None ELSE
    LET v == g[1][1].video IN
    IF v = None THEN None ELSE v[1].uri

\* the synchronous head of generateVideo: payload built, submission issued
GVInvoke(options, t) ==
    [pc |-> "submitting",
     options |-> options,
     payload |-> BuildPayload(options),
     operation |-> None,
     log |-> <<"generateVideos">>,
     download |-> None,
     result |-> None,
     startedAt |-> t]

Threw(c, observed, message) ==
    [c EXCEPT !.pc = "threw", !.result = Some(message), !.log = @ \o observed]

\* AfterOperation with the loop turned into do ... while: the first operation
\* is waited on and queried again even when it is done
AfterOperationDoWhile(c, op) ==
    IF ~op.done \/ c.operation = None
    THEN [c EXCEPT !.operation = Some(op), !.pc = "waiting",
                   !.log = @ \o <<IF op.done THEN "operation:done"
                                             ELSE "operation:pending", "setTimeout">>]
    ELSE IF ~Truthy(DownloadLink(op))
    THEN Threw([c EXCEPT !.operation = Some(op)], <<"operation:done">>, NoLinkMessage)
    ELSE [c EXCEPT !.operation = Some(op), !.pc = "fetching",
                   !.log = @ \o <<"operation:done", "fetch">>]

\* AfterOperation with the link tested against undefined only, so that an
\* empty uri is fetched
AfterOperationUndefinedOnly(c, op) ==
    IF ~op.done
    THEN [c EXCEPT !.operation = Some(op), !.pc = "waiting",
                   !.log = @ \o <<"operation:pending", "setTimeout">>]
    ELSE IF DownloadLink(op) = None
    THEN Threw([c EXCEPT !.operation = Some(op)], <<"operation:done">>, NoLinkMessage)
    ELSE [c EXCEPT !.operation = Some(op), !.pc = "fetching",
                   !.log = @ \o <<"operation:done", "fetch">>]

\* the poll loop's test, the result extraction and the download request, run
\* whenever an operation has been received
AfterOperation(c, op) ==
    IF ~op.done
    THEN [c EXCEPT !.operation = Some(op), !.pc = "waiting",
                   !.log = @ \o <<"operation:pending", "setTimeout">>]
    ELSE IF ~Truthy(DownloadLink(op))
    THEN Threw([c EXCEPT !.operation = Some(op)], <<"operation:done">>, NoLinkMessage)
    ELSE [c EXCEPT !.operation = Some(op), !.pc = "fetching",
                   !.log = @ \o <<"operation:done", "fetch">>]

\* the 10 s timer fired: the status query is issued
OnTimer(c) ==
    [c EXCEPT !.pc = "querying", !.log = @ \o <<"getVideosOperation">>]

\* generateVideos or getVideosOperation rejected: the error propagates
OnRejected(c, message) == Threw(c, <<"rejected">>, message)

\* OnFetched with a failed download fetched again
OnFetchedRetry(c, response) ==
    IF ~response.ok
    THEN [c EXCEPT !.download = Some(response), !.pc = "fetching",
                   !.log = @ \o <<"response:notok", "fetch">>]
    ELSE [c EXCEPT !.download = Some(response), !.pc = "reading",
                   !.log = @ \o <<"response:ok", "blob">>]

\* OnFetched without the test of response.ok
OnFetchedIgnoresOk(c, response) ==
    [c EXCEPT !.download = Some(response), !.pc = "reading",
              !.log = @ \o <<IF response.ok THEN "response:ok"
                                           ELSE "response:notok", "blob">>]

\* fetch resolved with `response`
OnFetched(c, response) ==
    IF ~response.ok
    THEN Threw([c EXCEPT !.download = Some(response)], <<"response:notok">>,
               DownloadFailedPrefix \o response.statusText)
    ELSE [c EXCEPT !.download = Some(response), !.pc = "reading",
                   !.log = @ \o <<"response:ok", "blob">>]

\* URL.createObjectURL: a URL no other call returns, here named after what it
\* refers to: the n-th downloaded video, or the n-th dropped file
ObjectUrl(kind, n) == "blob:" \o kind \o "-" \o ToString(n)

\* response.blob() resolved: the object URL is created and returned
OnBlob(c, n) ==
    [c EXCEPT !.pc = "returned", !.result = Some(ObjectUrl("video", n)),
              !.log = @ \o <<"createObjectURL">>]

Settled(c) == c.pc \in {"returned", "threw"}

\* the operations the provider may answer with at time t, given the number
\* of poll intervals during which it may still report "not done"
Answers(t, intervals) ==
    DoneOperations
        \cup (IF t < intervals * PollIntervalMs THEN {PendingOperation} ELSE {})

-----------------------------------------------------------------------------
(* The App component (App.tsx) *)

Init ==
    /\ image = None
    /\ prompt = ""
    /\ isGenerating = FALSE
    /\ error = None
    /\ generatedVideos = <<>>
    /\ hasApiKey = FALSE
    /\ aspectRatio = "16:9"
    /\ checkKeyPending = TRUE
    /\ selectors = 0
    /\ reads = <<>>
    /\ pending = <<>>
    /\ now = 0
    /\ urlCount = 0
    /\ started = 0
    /\ drops = 0
    /\ liveUrls = {}
    /\ mounted = TRUE
    /\ queuedImage = None
    /\ keyLost = FALSE
    /\ keyRegained = FALSE
    /\ renderedHasApiKey = FALSE
    /\ renderedIsGenerating = FALSE

Remove(seq, i) == SubSeq(seq, 1, i - 1) \o SubSeq(seq, i + 1, Len(seq))

\* a state setter called with value v where the state holds cur: React
\* ignores the call once the component is unmounted
SetState(v, cur) == IF mounted THEN v ELSE cur

\* the mount effect: setHasApiKey(await checkApiKey())
CheckKeyResolved ==
    /\ checkKeyPending
    /\ \E hasKey \in BOOLEAN :
          /\ hasApiKey' = SetState(hasKey, hasApiKey)
          /\ keyRegained' = (keyRegained \/ (mounted /\ keyLost /\ hasKey))
    /\ checkKeyPending' = FALSE
    /\ UNCHANGED <<image, prompt, isGenerating, error, generatedVideos, aspectRatio,
                   selectors, reads, pending, now, urlCount, liveUrls, started, drops,
                   mounted, queuedImage,
                   keyLost,
                   renderedHasApiKey, renderedIsGenerating>>

\* the mount effect when checkApiKey() rejects: checkKey ends at its await,
\* setHasApiKey is not called
CheckKeyRejected ==
    /\ checkKeyPending
    /\ checkKeyPending' = FALSE
    /\ UNCHANGED <<image, prompt, isGenerating, error, generatedVideos, hasApiKey,
                   aspectRatio, selectors, reads, pending, now, urlCount, liveUrls,
                   started, drops, mounted, queuedImage,
                   keyLost,
                   keyRegained, renderedHasApiKey, renderedIsGenerating>>

\* the prompt textarea's onChange
SetPrompt ==
    /\ mounted
    /\ \E p \in UserPrompts \ {prompt} : prompt' = p
    /\ UNCHANGED <<image, isGenerating, error, generatedVideos, hasApiKey, aspectRatio,
                   checkKeyPending, selectors, reads, pending, now, urlCount, liveUrls,
                   started, drops, mounted, queuedImage,
                   keyLost,
                   keyRegained, renderedHasApiKey, renderedIsGenerating>>

\* the two aspect-ratio buttons
SetAspectRatio ==
    /\ mounted
    /\ \E a \in AspectRatios \ {aspectRatio} : aspectRatio' = a
    /\ UNCHANGED <<image, prompt, isGenerating, error, generatedVideos, hasApiKey,
                   checkKeyPending, selectors, reads, pending, now, urlCount, liveUrls,
                   started, drops, mounted, queuedImage,
                   keyLost,
                   keyRegained, renderedHasApiKey, renderedIsGenerating>>

\* image?.preview
Preview(img) == IF img = None THEN None ELSE Some(img[1].preview)

\* onDrop: a FileReader is started on the first accepted file; its onload
\* callback closes over the image of the render that created onDrop
OnDrop ==
    /\ mounted
    /\ drops < MaxDrops
    /\ \E file \in Files :
          reads' = Append(reads, [file |-> file, id |-> drops + 1,
                                  closurePreview |-> Preview(image)])
    /\ drops' = drops + 1
    /\ UNCHANGED <<image, prompt, isGenerating, error, generatedVideos, hasApiKey,
                   aspectRatio, checkKeyPending, selectors, pending, now, urlCount,
                   liveUrls, started, mounted, queuedImage,
                   keyLost,
                   keyRegained, renderedHasApiKey, renderedIsGenerating>>

\* URL.revokeObjectURL(preview), called only if there is a preview
Revoke(urls, preview) == IF preview = None THEN urls ELSE urls \ {preview[1]}

\* reader.onload: the preview of the image in the callback's closure is
\* revoked, a fresh preview URL is created and setImage is called with the
\* new image, which React renders later
ReaderLoaded ==
    /\ \E i \in 1..Len(reads) :
        /\ liveUrls' = Revoke(liveUrls, reads[i].closurePreview)
                           \cup {ObjectUrl("image", reads[i].id)}
        /\ queuedImage' =
               SetState(Some([data |-> reads[i].file.data,
                              mimeType |-> reads[i].file.mimeType,
                              preview |-> ObjectUrl("image", reads[i].id)]),
                        queuedImage)
        /\ reads' = Remove(reads, i)
    /\ UNCHANGED <<image, prompt, isGenerating, error, generatedVideos, hasApiKey,
                   aspectRatio, checkKeyPending, selectors, pending, now, urlCount,
                   started, drops, mounted, keyLost,
                   keyRegained, renderedHasApiKey, renderedIsGenerating>>

\* React renders the state set outside the click handlers since the last
\* render: by reader.onload (the last image set, when several were set), by the
\* continuation of checkApiKey() or openApiKeySelector(), by the continuation
\* of generateVideo. From this render on the button is bound to a
\* handleGenerate that has closed over these values. When image?.preview has
\* changed, the cleanup of the preview effect runs, with the image of the
\* render before this one
Render ==
    /\ mounted
    /\ \/ queuedImage # None
       \/ renderedHasApiKey # hasApiKey
       \/ renderedIsGenerating # isGenerating
    /\ image' = IF queuedImage # None THEN queuedImage ELSE image
    /\ queuedImage' = None
    /\ renderedHasApiKey' = hasApiKey
    /\ renderedIsGenerating' = isGenerating
    /\ liveUrls' = IF Preview(image') # Preview(image)
                   THEN Revoke(liveUrls, Preview(image))
                   ELSE liveUrls
    /\ UNCHANGED <<prompt, isGenerating, error, generatedVideos, hasApiKey,
                   aspectRatio, checkKeyPending, selectors, reads, pending, now,
                   urlCount, started, drops, mounted, keyLost, keyRegained>>

\* ButtonDisabled without the isGenerating test
ButtonDisabledWithoutImageOnly == image = None

\* the Generate button's `disabled` attribute
ButtonDisabled == renderedIsGenerating \/ image = None

\* GenerateOptions with the prompt state passed as it is
GenerateOptionsRawPrompt ==
    [prompt |-> Some(prompt),
     image |-> Some([data |-> image[1].data, mimeType |-> image[1].mimeType]),
     aspectRatio |-> Some(aspectRatio),
     resolution |-> None]

\* the options handleGenerate passes to generateVideo
GenerateOptions ==
    [prompt |-> Some(IF prompt # "" THEN prompt ELSE DefaultPrompt),
     image |-> Some([data |-> image[1].data, mimeType |-> image[1].mimeType]),
     aspectRatio |-> Some(aspectRatio),
     resolution |-> None]

\* NeedsKey with the credential gate left out
NeedsKeyNever == FALSE

\* handleGenerate's test of the credential state
NeedsKey == ~renderedHasApiKey

\* handleGenerate up to its first await: the credential gate, the image check,
\* then the state updates and the call of generateVideo
HandleGenerateBody ==
    /\ IF NeedsKey
       THEN /\ selectors < MaxSelectors
            /\ selectors' = selectors + 1
            /\ UNCHANGED <<isGenerating, renderedIsGenerating, error, pending, started>>
       ELSE IF image = None
       THEN UNCHANGED <<selectors, isGenerating, renderedIsGenerating, error, pending,
                        started>>
       ELSE /\ started < MaxGenerations
            /\ isGenerating' = TRUE
            /\ renderedIsGenerating' = TRUE
            /\ error' = None
            /\ pending' = Append(pending, [closure |-> Some([prompt |-> prompt]),
                                           call |-> GVInvoke(GenerateOptions, now)])
            /\ started' = started + 1
            /\ UNCHANGED selectors
    /\ keyLost' = FALSE
    /\ keyRegained' = FALSE
    /\ UNCHANGED <<image, prompt, generatedVideos, hasApiKey, aspectRatio,
                   checkKeyPending, reads, now, urlCount, liveUrls, drops, mounted,
                   queuedImage, renderedHasApiKey>>

\* a click on the Generate button, which the browser delivers only while the
\* button is not disabled
HandleGenerate ==
    /\ mounted
    /\ ~ButtonDisabled
    /\ HandleGenerateBody

\* openApiKeySelector() resolved inside handleGenerate: setHasApiKey(true),
\* which React renders later
SelectorResolved ==
    /\ selectors > 0
    /\ selectors' = selectors - 1
    /\ hasApiKey' = SetState(TRUE, hasApiKey)
    /\ keyRegained' = (keyRegained \/ (mounted /\ keyLost))
    /\ UNCHANGED <<image, prompt, isGenerating, error, generatedVideos, aspectRatio,
                   checkKeyPending, reads, pending, now, urlCount, liveUrls, started,
                   drops, mounted, queuedImage,
                   keyLost,
                   renderedHasApiKey, renderedIsGenerating>>

\* openApiKeySelector() rejected inside handleGenerate: the await is outside
\* the try block, so handleGenerate ends there and setHasApiKey is not called
SelectorRejected ==
    /\ selectors > 0
    /\ selectors' = selectors - 1
    /\ UNCHANGED <<image, prompt, isGenerating, error, generatedVideos, hasApiKey,
                   aspectRatio, checkKeyPending, reads, pending, now, urlCount,
                   liveUrls, started, drops, mounted, queuedImage,
                   keyLost,
                   keyRegained, renderedHasApiKey, renderedIsGenerating>>

\* EntryTime taken when generateVideo was called
EntryTimeAtSubmission(c) == c.startedAt

\* the timestamp of a new entry: new Date(), taken when generateVideo has returned
EntryTime(c) == now

\* the entry handleGenerate prepends on success
NewEntry(closure, c) ==
    [url |-> c.result[1],
     prompt |-> IF closure.prompt # "" THEN closure.prompt ELSE DefaultTitle,
     timestamp |-> EntryTime(c)]

\* err.message || "Something went wrong during video generation."
ErrorMessage(message) == IF message # "" THEN message ELSE FallbackMessage

\* the messages with which generateVideo can throw
ThrownMessages ==
    ProviderErrors \cup NetworkErrors \cup {NoLinkMessage}
        \cup {DownloadFailedPrefix \o t : t \in StatusTexts}

\* IsCredentialError without the test for "403"
IsCredentialErrorWithout403(errorMessage) ==
    \/ Includes(errorMessage, "Requested entity was not found")
    \/ Includes(errorMessage, "permission")

\* the errors that reset the credential state
IsCredentialError(errorMessage) ==
    \/ Includes(errorMessage, "Requested entity was not found")
    \/ Includes(errorMessage, "permission")
    \/ Includes(errorMessage, "403")

\* IsCredentialError(errorMessage) for every errorMessage handleGenerate can
\* compute, evaluated once
CredentialErrorTable ==
    [errorMessage \in {ErrorMessage(m) : m \in ThrownMessages} |->
        IsCredentialError(errorMessage)]

\* Continue with setIsGenerating(false) at the end of the try block instead
\* of in a finally block
ContinueWithoutFinally(i, c) ==
    /\ pending' = Remove(pending, i)
    /\ IF ~mounted
       THEN UNCHANGED <<isGenerating, error, generatedVideos, hasApiKey, keyLost>>
       ELSE IF c.pc = "returned"
       THEN /\ generatedVideos' =
                  <<NewEntry(pending[i].closure[1], c)>> \o generatedVideos
            /\ isGenerating' = FALSE
            /\ UNCHANGED <<error, hasApiKey, keyLost>>
       ELSE /\ IF CredentialErrorTable[ErrorMessage(c.result[1])]
               THEN /\ hasApiKey' = FALSE
                    /\ keyLost' = TRUE
                    /\ error' = Some(RemediationMessage)
               ELSE /\ error' = Some(ErrorMessage(c.result[1]))
                    /\ UNCHANGED <<hasApiKey, keyLost>>
            /\ UNCHANGED <<generatedVideos, isGenerating>>
    /\ UNCHANGED <<image, prompt, aspectRatio, checkKeyPending, selectors, reads,
                   started, drops, mounted, queuedImage, keyRegained,
                   renderedHasApiKey, renderedIsGenerating>>

\* handleGenerate after `await generateVideo(...)`: then, catch and finally.
\* Once the component is unmounted React ignores the state setters it calls
Continue(i, c) ==
    /\ pending' = Remove(pending, i)
    /\ IF ~mounted
       THEN UNCHANGED <<isGenerating, error, generatedVideos, hasApiKey, keyLost>>
       ELSE /\ isGenerating' = FALSE
            /\ IF c.pc = "returned"
               THEN /\ generatedVideos' =
                          <<NewEntry(pending[i].closure[1], c)>> \o generatedVideos
                    /\ UNCHANGED <<error, hasApiKey, keyLost>>
               ELSE /\ IF CredentialErrorTable[ErrorMessage(c.result[1])]
                       THEN /\ hasApiKey' = FALSE
                            /\ keyLost' = TRUE
                            /\ error' = Some(RemediationMessage)
                       ELSE /\ error' = Some(ErrorMessage(c.result[1]))
                            /\ UNCHANGED <<hasApiKey, keyLost>>
                    /\ UNCHANGED generatedVideos
    /\ UNCHANGED <<image, prompt, aspectRatio, checkKeyPending, selectors, reads,
                   started, drops, mounted, queuedImage, keyRegained,
                   renderedHasApiKey, renderedIsGenerating>>

-----------------------------------------------------------------------------
(* The provider, the timer and the network answering generateVideo *)

At(i, pc) == pending[i].call.pc = pc

\* the bound on "not done" answers that applies to invocation i
Intervals(i) == IF pending[i].closure = None THEN MaxPolls ELSE MaxWaits

\* invocation i moves to c. A settled invocation resumes the handleGenerate
\* awaiting it at once: promise continuations are microtasks, which run before
\* any other event, timer or network callback is delivered
Advance(i, c) ==
    IF Settled(c) /\ pending[i].closure # None
    THEN Continue(i, c)
    ELSE /\ pending' = [pending EXCEPT ![i].call = c]
         /\ UNCHANGED uiVars

SubmitResolved ==
    /\ \E i \in 1..Len(pending) :
        /\ At(i, "submitting")
        /\ \E op \in Answers(now, Intervals(i)) : Advance(i, AfterOperation(pending[i].call, op))
    /\ UNCHANGED <<now, urlCount, liveUrls>>

SubmitRejected ==
    /\ \E i \in 1..Len(pending) :
        /\ At(i, "submitting")
        /\ \E m \in ProviderErrors : Advance(i, OnRejected(pending[i].call, m))
    /\ UNCHANGED <<now, urlCount, liveUrls>>

TimerFired ==
    /\ \E i \in 1..Len(pending) :
        /\ At(i, "waiting")
        /\ Advance(i, OnTimer(pending[i].call))
    /\ now' = now + PollIntervalMs
    /\ UNCHANGED <<urlCount, liveUrls>>

QueryResolved ==
    /\ \E i \in 1..Len(pending) :
        /\ At(i, "querying")
        /\ \E op \in Answers(now, Intervals(i)) : Advance(i, AfterOperation(pending[i].call, op))
    /\ UNCHANGED <<now, urlCount, liveUrls>>

QueryRejected ==
    /\ \E i \in 1..Len(pending) :
        /\ At(i, "querying")
        /\ \E m \in ProviderErrors : Advance(i, OnRejected(pending[i].call, m))
    /\ UNCHANGED <<now, urlCount, liveUrls>>

FetchResolved ==
    /\ \E i \in 1..Len(pending) :
        /\ At(i, "fetching")
        /\ \E r \in FetchResponses : Advance(i, OnFetched(pending[i].call, r))
    /\ UNCHANGED <<now, urlCount, liveUrls>>

FetchRejected ==
    /\ \E i \in 1..Len(pending) :
        /\ At(i, "fetching")
        /\ \E m \in NetworkErrors : Advance(i, OnRejected(pending[i].call, m))
    /\ UNCHANGED <<now, urlCount, liveUrls>>

BlobResolved ==
    /\ \E i \in 1..Len(pending) :
        /\ At(i, "reading")
        /\ Advance(i, OnBlob(pending[i].call, urlCount + 1))
    /\ urlCount' = urlCount + 1
    /\ liveUrls' = liveUrls \cup {ObjectUrl("video", urlCount + 1)}
    /\ UNCHANGED now

BlobRejected ==
    /\ \E i \in 1..Len(pending) :
        /\ At(i, "reading")
        /\ \E m \in NetworkErrors : Advance(i, OnRejected(pending[i].call, m))
    /\ UNCHANGED <<now, urlCount, liveUrls>>

Next ==
    \/ CheckKeyResolved
    \/ CheckKeyRejected
    \/ SetPrompt
    \/ SetAspectRatio
    \/ OnDrop
    \/ ReaderLoaded
    \/ Render
    \/ HandleGenerate
    \/ SelectorResolved
    \/ SelectorRejected
    \/ SubmitResolved
    \/ SubmitRejected
    \/ TimerFired
    \/ QueryResolved
    \/ QueryRejected
    \/ FetchResolved
    \/ FetchRejected
    \/ BlobResolved
    \/ BlobRejected

Spec == Init /\ [][Next]_vars

-----------------------------------------------------------------------------
(* generateVideo called on its own, with any options its type allows *)

DirectCall ==
    /\ pending = <<>>
    /\ \E o \in OptionSet :
          pending' = <<[closure |-> None, call |-> GVInvoke(o, now)]>>
    /\ UNCHANGED <<uiVars, now, urlCount, liveUrls>>

NextGV ==
    \/ DirectCall
    \/ SubmitResolved
    \/ SubmitRejected
    \/ TimerFired
    \/ QueryResolved
    \/ QueryRejected
    \/ FetchResolved
    \/ FetchRejected
    \/ BlobResolved
    \/ BlobRejected

SpecGV == Init /\ [][NextGV]_vars

-----------------------------------------------------------------------------
(* The App with its unmount *)

\* the component is unmounted: the cleanup of the preview effect revokes the
\* preview of the image last rendered; no other effect cleanup and no other
\* code of the component calls URL.revokeObjectURL. A setImage value not yet
\* rendered is dropped. Nothing is cancelled: the file reads and the
\* generateVideo invocations outstanding go on
Unmount ==
    /\ mounted
    /\ mounted' = FALSE
    /\ queuedImage' = None
    /\ liveUrls' = Revoke(liveUrls, Preview(image))
    /\ UNCHANGED <<image, prompt, isGenerating, error, generatedVideos, hasApiKey,
                   aspectRatio, checkKeyPending, selectors, reads, pending, now,
                   urlCount, started, drops, keyLost,
                   keyRegained, renderedHasApiKey, renderedIsGenerating>>

NextLife ==
    \/ Next
    \/ Unmount

SpecLife == Init /\ [][NextLife]_vars

-----------------------------------------------------------------------------
(* Properties of generateVideo, checked for every invocation in flight or  *)
(* settled, under SpecGV (any options) *)

Calls == {pending[i].call : i \in 1..Len(pending)}

\* the positions of event e in log L
Positions(L, e) == {i \in 1..Len(L) : L[i] = e}

\* the one response of the provider that carries a non-empty result uri
HasResultUri(op) ==
    /\ op.done
    /\ \E u \in {ResultUri} :
          op.response = <<[generatedVideos |-> <<<<[video |-> <<[uri |-> <<u>>]>>]>>>>]>>

\* C1: a status query is issued only right after one 10 s wait that followed an
\* operation observed not done; every wait is followed by exactly one query;
\* a query is answered before anything else happens; nothing is queried or
\* waited for after an operation was observed done or a call was rejected; and
\* a submission answered "done" is followed by no wait and no query.
C1_PollOnlyAfterWaitWhilePending ==
    \A c \in Calls :
        LET L == c.log
            n == Len(L) IN
        /\ \A i \in Positions(L, "getVideosOperation") :
              /\ i >= 3
              /\ L[i - 1] = "setTimeout"
              /\ L[i - 2] = "operation:pending"
              /\ IF i = n THEN c.pc = "querying"
                 ELSE L[i + 1] \in {"operation:pending", "operation:done", "rejected"}
        /\ \A i \in Positions(L, "setTimeout") :
              /\ i >= 2
              /\ L[i - 1] = "operation:pending"
              /\ IF i = n THEN c.pc = "waiting" ELSE L[i + 1] = "getVideosOperation"
        /\ \A i \in Positions(L, "operation:pending") :
              i < n /\ L[i + 1] = "setTimeout"
        /\ \A i \in Positions(L, "operation:done") \cup Positions(L, "rejected") :
              \A j \in (i + 1)..n : L[j] \notin {"getVideosOperation", "setTimeout"}
        /\ (n >= 2 /\ L[2] = "operation:done") =>
              Positions(L, "getVideosOperation") \cup Positions(L, "setTimeout") = {}
        /\ now - c.startedAt
              = 10000 * Cardinality(Positions(L, "getVideosOperation"))

\* C1 witness: an invocation that returned after two waits and two queries
C1_Witness ==
    \E c \in Calls :
        /\ c.pc = "returned"
        /\ Cardinality(Positions(c.log, "getVideosOperation")) = 2
        /\ Cardinality(Positions(c.log, "setTimeout")) = 2

\* C2: the remote calls of one invocation are one submission, first, then
\* status queries, then at most one download fetch; the fetch follows an
\* operation observed done with a non-empty result uri; a rejected call, a
\* missing result or a failed download is the last thing that happens and ends
\* the invocation as thrown.
C2_SubmitPollFetchOnceNoRetry ==
    \A c \in Calls :
        LET L == c.log
            n == Len(L) IN
        /\ Positions(L, "generateVideos") = {1}
        /\ Cardinality(Positions(L, "fetch")) <= 1
        /\ \A i \in Positions(L, "getVideosOperation") :
              \A j \in Positions(L, "fetch") : i < j
        /\ \A j \in Positions(L, "fetch") :
              /\ L[j - 1] = "operation:done"
              /\ c.operation # None
              /\ HasResultUri(c.operation[1])
        /\ \A i \in Positions(L, "rejected") \cup Positions(L, "response:notok") :
              i = n /\ c.pc = "threw"
        /\ \A i \in Positions(L, "operation:done") :
              \/ i < n /\ L[i + 1] = "fetch"
              \/ i = n /\ c.pc = "threw"
        /\ c.pc = "threw" =>
              L[n] \in {"rejected", "operation:done", "response:notok"}

\* C2 witness: an invocation that submitted, queried and fetched, and whose
\* download then failed
C2_Witness ==
    \E c \in Calls :
        /\ c.pc = "threw"
        /\ c.log = <<"generateVideos", "operation:pending", "setTimeout",
                     "getVideosOperation", "operation:done", "fetch",
                     "response:notok">>

\* C3: once an operation was observed done without a non-empty result uri,
\* the invocation has thrown the missing-result error, has not returned, and
\* has issued no download fetch.
C3_MissingResultThrows ==
    \A c \in Calls :
        (c.operation # None /\ c.operation[1].done /\ ~HasResultUri(c.operation[1])) =>
            /\ c.pc = "threw"
            /\ c.result = <<"Video generation failed: No download link returned.">>
            /\ Positions(c.log, "fetch") = {}
            /\ c.download = None

\* C3 witness: the job was reported done with an empty uri, after one query
C3_Witness ==
    \E c \in Calls :
        /\ c.pc = "threw"
        /\ c.operation = <<[done |-> TRUE,
                            response |-> <<[generatedVideos |->
                                <<<<[video |-> <<[uri |-> <<"">>]>>]>>>>]>>]>>
        /\ Positions(c.log, "getVideosOperation") # {}

\* C4: once the download response was not ok, the invocation has thrown the
\* download error carrying the status text and no object URL was created; an
\* invocation that returned had an ok download response and created one URL.
C4_FailedDownloadThrows ==
    \A c \in Calls :
        /\ (c.download # None /\ ~c.download[1].ok) =>
              /\ c.pc = "threw"
              /\ Includes(c.result[1], "Failed to download video")
              /\ Includes(c.result[1], c.download[1].statusText)
              /\ Len(c.result[1]) =
                    Len("Failed to download video: ") + Len(c.download[1].statusText)
              /\ Positions(c.log, "createObjectURL") = {}
              /\ urlCount = 0
        /\ c.pc = "returned" =>
              /\ c.download # None /\ c.download[1].ok
              /\ Cardinality(Positions(c.log, "createObjectURL")) = 1
              /\ urlCount = 1
              /\ c.result = <<"blob:video-1">>

\* C4 witness: the download answered "Forbidden", not ok
C4_Witness ==
    \E c \in Calls :
        /\ c.download = <<[ok |-> FALSE, statusText |-> "Forbidden"]>>
        /\ c.result = <<"Failed to download video: Forbidden">>

\* C5: the submitted payload has an aspect ratio of 16:9 or 9:16 and a
\* resolution of 720p or 1080p: the caller's value when given, 16:9 and 720p
\* when not.
C5_PayloadShape ==
    \A c \in Calls :
        LET cfg == c.payload.config IN
        /\ cfg.aspectRatio \in {"16:9", "9:16"}
        /\ cfg.resolution \in {"720p", "1080p"}
        /\ c.options.aspectRatio = None => cfg.aspectRatio = "16:9"
        /\ c.options.resolution = None => cfg.resolution = "720p"
        /\ c.options.aspectRatio # None => cfg.aspectRatio = c.options.aspectRatio[1]
        /\ c.options.resolution # None => cfg.resolution = c.options.resolution[1]

\* C5 witness: a submission without aspect ratio and with resolution 1080p
C5_Witness ==
    \E c \in Calls :
        /\ c.options.aspectRatio = None
        /\ c.options.resolution = <<"1080p">>
        /\ c.log = <<"generateVideos">>

-----------------------------------------------------------------------------
(* Properties of the App component, checked under Spec *)

\* the generateVideo invocations made by handleGenerate and not yet finished
InFlight == {i \in 1..Len(pending) : pending[i].closure # None}

\* C6: every submission made through the UI carries a non-empty prompt: the
\* prompt typed when handleGenerate was invoked, or the fixed default string
\* when that prompt was empty.
C6_PromptNeverEmpty ==
    \A i \in InFlight :
        LET typed == pending[i].closure[1].prompt
            sent == pending[i].call.payload.prompt IN
        /\ sent # None
        /\ sent[1] # ""
        /\ typed = "" => sent = <<"Animate this image with cinematic motion.">>
        /\ typed # "" => sent = <<typed>>

\* C6 witness: a submission made with an empty prompt field, now downloading
C6_Witness ==
    \E i \in InFlight :
        /\ pending[i].closure[1].prompt = ""
        /\ pending[i].call.pc = "fetching"
        /\ pending[i].call.payload.prompt = <<"Animate this image with cinematic motion.">>

\* those of them that contain one of the three substrings of the claim
CredentialMessages ==
    {m \in ThrownMessages :
        \/ Includes(m, "Requested entity was not found")
        \/ Includes(m, "permission")
        \/ Includes(m, "403")}

\* handleGenerate finishes in this step because generateVideo threw message m
FinishesWith(i, m) ==
    /\ i \in InFlight
    /\ ~Settled(pending[i].call)
    /\ Continue(i, [pending[i].call EXCEPT !.pc = "threw", !.result = Some(m)])

\* handleGenerate finishes a generation that failed with a message containing
\* one of the three substrings, and leaves hasApiKey false, isGenerating false
\* and the fixed remediation message displayed
CredentialFailureShown ==
    Len(pending') < Len(pending) =>
        \A i \in 1..Len(pending) : \A m \in CredentialMessages :
            FinishesWith(i, m)
            => /\ hasApiKey' = FALSE
               /\ keyLost'
               /\ isGenerating' = FALSE
               /\ error' = <<"API Key permission error. Please ensure you have selected a paid Google Cloud project key with Veo access.">>
               /\ error' # <<m>>

\* this handleGenerate invocation runs the credential-selection flow and
\* sends no submission
SelectsKey ==
    /\ selectors' = selectors + 1
    /\ pending' = pending
    /\ started' = started

C8_OneGenerationInFlight ==
    /\ Cardinality(InFlight) <= 1
    /\ isGenerating <=> InFlight # {}

\* C8 witness: the second generation of a behaviour polling while a
\* credential-selection flow is still open
C8_Witness ==
    /\ started = 2
    /\ selectors = 1
    /\ \E i \in InFlight : pending[i].call.pc = "querying"

\* handleGenerate, run in the current state, would send a submission or
\* change isGenerating or error
HandleGenerateActs ==
    ENABLED ( /\ HandleGenerateBody
              /\ \/ pending' # pending
                 \/ isGenerating' # isGenerating
                 \/ error' # error )

\* C9, as the spec states it: a submission is sent only from a state with
\* hasApiKey true and an image selected; handleGenerate run with no image
\* sends nothing and changes neither isGenerating nor error; handleGenerate
\* run with hasApiKey false only starts the credential-selection flow.
C9_SubmitOnlyWithKeyAndImage ==
    /\ [](image = None => ~HandleGenerateActs)
    /\ [](~hasApiKey => ~HandleGenerateActs)
    /\ [][ /\ Len(pending') > Len(pending) => (hasApiKey /\ image # None)
           /\ (~hasApiKey /\ HandleGenerate)
                 => /\ selectors' = selectors + 1
                    /\ UNCHANGED <<pending, started, isGenerating, error>> ]_vars

\* C9, corrected: a submission is sent only from a state in which hasApiKey
\* was true at the last render and an image is selected, even if hasApiKey
\* has been set false since that render; handleGenerate
\* run with no image sends nothing and changes neither isGenerating nor error;
\* handleGenerate run while hasApiKey was false at the last render only starts
\* the credential-selection flow, whatever hasApiKey has been set to since.
C9_SubmitOnlyWithRenderedKeyAndImage ==
    /\ [](image = None => ~HandleGenerateActs)
    /\ [](~renderedHasApiKey => ~HandleGenerateActs)
    /\ [][ /\ Len(pending') > Len(pending) => (renderedHasApiKey /\ image # None)
           /\ (~renderedHasApiKey /\ HandleGenerate)
                 => /\ selectors' = selectors + 1
                    /\ UNCHANGED <<pending, started, isGenerating, error>> ]_vars

\* C9 witness: a submission just sent by a click that came after the key
\* check had set hasApiKey false and before React rendered it
C9_Witness ==
    /\ ~hasApiKey
    /\ renderedHasApiKey
    /\ image # None
    /\ ~checkKeyPending
    /\ selectors = 0
    /\ \E i \in InFlight : pending[i].call.log = <<"generateVideos">>

\* C10: generatedVideos changes only in the step in which a download
\* completes (the blob is read and the object URL created): it then gains one
\* entry, in front, holding that URL and the clock of that step; every such
\* step adds an entry; the entries already there keep their order.
C10_EntryOnlyOnCompletedDownload ==
    [][ /\ generatedVideos' # generatedVideos =>
              \E i \in InFlight :
                  /\ pending[i].call.pc = "reading"
                  /\ pending[i].call.download = <<[ok |-> TRUE, statusText |-> "OK"]>>
                  /\ pending' = Remove(pending, i)
                  /\ urlCount' = urlCount + 1
                  /\ Len(generatedVideos') = Len(generatedVideos) + 1
                  /\ SubSeq(generatedVideos', 2, Len(generatedVideos')) = generatedVideos
                  /\ generatedVideos'[1].timestamp = now'
                  /\ generatedVideos'[1].timestamp >= pending[i].call.startedAt
                  /\ generatedVideos'[1].url = ObjectUrl("video", urlCount')
                  /\ \A k \in 1..Len(generatedVideos) :
                        generatedVideos[k].url # generatedVideos'[1].url
        /\ (InFlight # {} /\ urlCount' = urlCount + 1) =>
              Len(generatedVideos') = Len(generatedVideos) + 1 ]_vars

\* C10 witness: two entries, the newer one in front, stamped one poll interval
\* after its generation was submitted
C10_Witness ==
    /\ Len(generatedVideos) = 2
    /\ generatedVideos[1].timestamp = 10000
    /\ generatedVideos[2].timestamp = 0
    /\ generatedVideos[1].url = "blob:video-2"
    /\ generatedVideos[2].url = "blob:video-1"

-----------------------------------------------------------------------------
(* Object URLs, under SpecLife (the App with its unmount) *)

\* the preview URLs created so far and not revoked
LivePreviews == liveUrls \cap {ObjectUrl("image", n) : n \in 1..drops}

\* the URLs of downloaded videos created so far and not revoked
LiveVideos == liveUrls \cap {ObjectUrl("video", n) : n \in 1..urlCount}

\* C11: every object URL the App creates, for an image preview or for a
\* downloaded video, is revoked when it is replaced or when the component is
\* unmounted: at any time at most one preview URL is un-revoked; and once the
\* component has been unmounted, with no file read and no generation
\* outstanding, no created URL is un-revoked.
C11_EveryObjectUrlRevoked ==
    /\ Cardinality(LivePreviews) <= 1
    /\ (~mounted /\ reads = <<>> /\ pending = <<>>) => liveUrls = {}

\* what the code does: no URL of a downloaded video is ever revoked
C11_VideoUrlsNeverRevoked ==
    LiveVideos = {ObjectUrl("video", n) : n \in 1..urlCount}

\* the component was unmounted after a file was read and a generation
\* finished, with nothing outstanding: the preview has been revoked, and the
\* downloaded video's URL has not
C11_Witness ==
    /\ ~mounted /\ reads = <<>> /\ pending = <<>>
    /\ image # None /\ image[1].preview \notin liveUrls
    /\ generatedVideos # <<>>
    /\ generatedVideos[1].url \in liveUrls

-----------------------------------------------------------------------------
(* The App with a timer that fires and remote calls that are answered *)

\* the done operations that carry a result URI, and the ok responses
UsableOperations == {o \in DoneOperations : Truthy(DownloadLink(o))}
OkResponses == {r \in FetchResponses : r.ok}

\* a remote call generateVideo awaits is answered with what generateVideo
\* goes on with: a done operation that has a result URI, an ok download, the
\* downloaded bytes
AnsweredWell ==
    \/ \E i \in 1..Len(pending) :
           /\ pending[i].call.pc \in {"submitting", "querying"}
           /\ \E op \in UsableOperations :
                  Advance(i, AfterOperation(pending[i].call, op))
           /\ UNCHANGED <<now, urlCount, liveUrls>>
    \/ \E i \in 1..Len(pending) :
           /\ pending[i].call.pc = "fetching"
           /\ \E r \in OkResponses : Advance(i, OnFetched(pending[i].call, r))
           /\ UNCHANGED <<now, urlCount, liveUrls>>
    \/ BlobResolved

\* generateVideo is resumed: the poll timer it set fires, or the remote call
\* it awaits is answered
Proceeds == TimerFired \/ AnsweredWell

\* the browser fires every timer that was set, and no remote call is left
\* unanswered for ever. AnsweredWell is enabled exactly while a call awaits an
\* answer, and every other answer (a "not done" report, a done operation
\* without result, a failed download, a rejection) ends that wait too, so the
\* condition constrains when an answer comes, never which one. The provider
\* reports "not done" for a bounded time only (Answers).
SpecFair == Spec /\ WF_vars(Proceeds)

-----------------------------------------------------------------------------
(* Termination of a generation, under SpecFair *)

\* the suspension points at which generateVideo awaits a remote call
AwaitingAnswer == {"submitting", "querying", "fetching", "reading"}

\* C12: with a provider that reports the job done or a remote call that fails
\* in the end, every generation handleGenerate starts finishes and
\* isGenerating returns to false, on the success path and on every error
\* path (at every time isGenerating is false then or later, that is, it never
\* stays true for ever); isGenerating is true exactly while a generateVideo
\* call is in flight;
\* and nothing but an answer ends a generation: isGenerating stays true
\* through the poll wait and through every "not done" report, and falls only
\* in a step that answers an awaited remote call, with a new video or with an
\* error displayed.
C12_GenerationEndsOnlyByAnswer ==
    /\ []<>~isGenerating
    /\ [](isGenerating <=> InFlight # {})
    /\ [][ /\ (\E i \in InFlight : pending[i].call.pc = "waiting")
              => isGenerating'
           /\ (isGenerating /\ ~isGenerating')
              => /\ \E i \in InFlight : pending[i].call.pc \in AwaitingAnswer
                 /\ \/ /\ Len(generatedVideos') = Len(generatedVideos) + 1
                       /\ error' = None
                    \/ /\ generatedVideos' = generatedVideos
                       /\ error' # None ]_vars

\* two generations have finished, one with a video and one with an error,
\* after the provider had reported "not done" and a poll wait had passed
C12_Witness ==
    /\ started = 2
    /\ ~isGenerating /\ pending = <<>>
    /\ generatedVideos # <<>>
    /\ error # None
    /\ now > 0

====
